---- MODULE Spec2Model ----
(***************************************************************************)
(* WebRTC signaling relay of video_calling_backend: the connection         *)
(* registry (SignalingManager), the per-connection signaling_loop, the     *)
(* call-session bookkeeping (_touch_call_session) and the /ws endpoint.    *)
(*                                                                         *)
(* A websocket (channel) is identified with the session that owns it.      *)
(* Text values are sequences of tokens; the token " " is whitespace.       *)
(* A JSON object (python dict) is a function whose DOMAIN is its key set.  *)
(***************************************************************************)
EXTENDS Integers, Sequences, FiniteSets, TLC

\* ---------------------------------------------------------------- bounds
MaxSessions == 2
MaxInbox == 1
\* frames the clients send in one run, per workload
MaxWireFrames == 1
MaxCallFrames == 2
MaxRedialFrames == 1
MaxExitFrames == 2

Sessions == 1..MaxSessions
Users == {"A", "B"}

NoUser == "none"
NoWs == 0
NoTime == 0

\* ------------------------------------------------------------ text values
Empty == [k \in {} |-> <<>>]

RECURSIVE LStrip(_)
LStrip(str) ==
    IF str # <<>> /\ Head(str) = " " THEN LStrip(Tail(str)) ELSE str

RECURSIVE RStrip(_)
RStrip(str) ==
    IF str # <<>> /\ str[Len(str)] = " "
    THEN RStrip(SubSeq(str, 1, Len(str) - 1))
    ELSE str

\* str.strip()
Strip(str) == RStrip(LStrip(str))

\* str(msg.get(k) or "")
GetStr(msg, k) == IF k \in DOMAIN msg THEN msg[k] ELSE <<>>

\* Textual forms of a user id: str(uuid) is the canonical form; uuid.UUID()
\* also parses other spellings (braces); anything else does not parse.
UuidStr(u) == [form |-> "canon", id |-> u]
JunkText == [form |-> "junk", id |-> NoUser]

\* msg.get("to"); an absent key gives None, and str(None) is not a uuid
GetTo(msg) == IF "to" \in DOMAIN msg THEN msg["to"] ELSE JunkText

_get_uuid(value) ==
    IF value.form \in {"canon", "braced"} THEN value.id ELSE NoUser

\* An accepted set with one type too many.
RecognizedTypes_withBogus ==
    {<<"offer">>, <<"answer">>, <<"candidate">>, <<"hangup">>, <<"bogus">>}

RecognizedTypes == {<<"offer">>, <<"answer">>, <<"candidate">>, <<"hangup">>}

MsgType(msg) == Strip(GetStr(msg, "type"))
ToId(msg) == _get_uuid(GetTo(msg))

\* A room id that is tested for blankness but used as it came.
RoomId_unstripped(msg) ==
    IF Strip(GetStr(msg, "roomId")) # <<>>
    THEN GetStr(msg, "roomId")
    ELSE <<"default">>

RoomId(msg) ==
    IF Strip(GetStr(msg, "roomId")) # <<>>
    THEN Strip(GetStr(msg, "roomId"))
    ELSE <<"default">>

\* ----------------------------------------------------------- input frames
TypeOpts == {Empty} \cup
    {"type" :> v : v \in {<<"offer">>, <<"hangup">>, <<"bogus">>,
                          <<" ", "answer", " ">>}}
ToOpts == {Empty, "to" :> JunkText, "to" :> UuidStr("A"),
           "to" :> [form |-> "braced", id |-> "B"]}
RoomOpts == {Empty} \cup
    {"roomId" :> v : v \in {<<" ">>, <<"r1", " ">>}}
PayloadOpts == {Empty, "sdp" :> <<"X">>,
                ("sdp" :> <<"X">>) @@ ("from" :> UuidStr("B"))}

Objects == {t @@ d @@ r @@ p :
              t \in TypeOpts, d \in ToOpts, r \in RoomOpts, p \in PayloadOpts}

\* json: "invalid" = json.loads raises; "scalar" = valid JSON that is not an
\* object (array, number, string, null); "object" = a JSON object
Frames == [json : {"object"}, obj : Objects]
            \cup [json : {"invalid", "scalar"}, obj : {Empty}]

\* The frames of a call: well-formed offers and hangups between the users.
RedialObjects == {t @@ d @@ r :
                    t \in {"type" :> <<"offer">>, "type" :> <<"hangup">>},
                    d \in {"to" :> UuidStr("A"),
                           "to" :> [form |-> "braced", id |-> "B"]},
                    r \in {Empty, "roomId" :> <<"r1", " ">>}}
RedialFrames == [json : {"object"}, obj : RedialObjects]

\* The same, all addressed to user B.
CallFrames == {f \in RedialFrames : f.obj["to"].id = "B"}

\* The frames that end a session, and one that is relayed.
ExitFrames == [json : {"scalar"}, obj : {Empty}]
                \cup [json : {"object"},
                      obj : {("type" :> <<"offer">>) @@ d :
                               d \in {"to" :> UuidStr("A"),
                                      "to" :> [form |-> "braced", id |-> "B"]}}]

\* A run draws its frames from one workload: any frame at all ("wire"),
\* the messages of calls on an empty table ("call") or on a table that
\* holds the rows of earlier calls ("redial"), or session-ending frames
\* ("exit").
Alphabet(w) ==
    CASE w = "wire" -> Frames
      [] w = "call" -> CallFrames
      [] w = "redial" -> RedialFrames
      [] w = "exit" -> ExitFrames
Budget(w) ==
    CASE w = "wire" -> MaxWireFrames
      [] w = "call" -> MaxCallFrames
      [] w = "redial" -> MaxRedialFrames
      [] w = "exit" -> MaxExitFrames

\* -------------------------------------------------------- outbound messages
UnknownTypeError ==
    [type |-> <<"error">>, detail |-> <<"Unknown message type.">>]
\* The reply of the type check pasted into the check of "to".
InvalidToError_pasted ==
    [type |-> <<"error">>, detail |-> <<"Unknown message type.">>]

InvalidToError ==
    [type |-> <<"error">>, detail |-> <<"Missing/invalid 'to' user id.">>]
\* A notice that does not say which room it is about.
PeerOffline_noRoom(to_id, room_id) ==
    [type |-> <<"peer_offline">>, to |-> UuidStr(to_id)]

PeerOffline(to_id, room_id) ==
    [type |-> <<"peer_offline">>, to |-> UuidStr(to_id), roomId |-> room_id]

\* An envelope that keeps a "from" the client supplied.
Forward_trustsFrom(msg, current_user_id) ==
    [k \in (DOMAIN msg \ {"to"}) \cup {"from", "roomId"} |->
        IF k = "from"
        THEN (IF "from" \in DOMAIN msg THEN msg["from"]
              ELSE UuidStr(current_user_id))
        ELSE IF k = "roomId" THEN RoomId(msg)
        ELSE msg[k]]

\* An envelope that still carries the inbound "to".
Forward_keepsTo(msg, current_user_id) ==
    [k \in DOMAIN msg \cup {"from", "roomId"} |->
        IF k = "from" THEN UuidStr(current_user_id)
        ELSE IF k = "roomId" THEN RoomId(msg)
        ELSE msg[k]]

Forward(msg, current_user_id) ==
    [k \in (DOMAIN msg \ {"to"}) \cup {"from", "roomId"} |->
        IF k = "from" THEN UuidStr(current_user_id)
        ELSE IF k = "roomId" THEN RoomId(msg)
        ELSE msg[k]]

\* ------------------------------------------------------------- credentials
Tokens == [kind : {"missing", "invalid"}, sub : {NoUser}]
            \cup [kind : {"valid"}, sub : Users \cup {"Z"}]

\* Rows of the users table; "Z" is a token subject that has no row.
UsersTable == Users

\* A check that lets a valid token in whether or not its subject has a row
\* (the subject without a row ends up served as user "A").
_token_to_user_id_noLookup(token) ==
    IF token.kind # "valid" THEN NoUser
    ELSE IF token.sub \in UsersTable THEN token.sub ELSE "A"

_token_to_user_id(token) ==
    IF token.kind = "valid" /\ token.sub \in UsersTable
    THEN token.sub ELSE NoUser

VARIABLES
    pc,             \* position of each endpoint coroutine
    user,           \* current_user_id of each session
    open,           \* whether the transport of each websocket is open
    inbox,          \* frames sent by the client, not yet received
    outbox,         \* messages written to each websocket, in order
    connections,    \* SignalingManager._connections
    lock,           \* the session holding SignalingManager._lock, or NoWs
    sending,        \* (ws, message) of a send_to_user awaiting ws.send_text
    call_sessions,  \* committed rows of table call_sessions
    now,            \* datetime.utcnow(), a logical clock
    nframes,        \* frames sent by all clients so far
    workload        \* the workload the clients of this run follow

vars == <<pc, user, open, inbox, outbox, connections, lock, sending,
          call_sessions, now, nframes, workload>>

Idle == [ws |-> NoWs, message |-> Empty]

\* ------------------------------------------------------ SignalingManager
\* A register that keeps an entry the user already has (dict.setdefault).
connect_keepsFirst(conns, user_id, websocket) ==
    IF conns[user_id] = NoWs
    THEN [conns EXCEPT ![user_id] = websocket]
    ELSE conns

connect(conns, user_id, websocket) == [conns EXCEPT ![user_id] = websocket]

\* An unregister that empties the registry (dict.clear).
disconnect_clearsAll(conns, user_id) == [u \in DOMAIN conns |-> NoWs]

\* An unregister that removes nothing.
disconnect_noop(conns, user_id) == conns

disconnect(conns, user_id) == [conns EXCEPT ![user_id] = NoWs]

\* ---------------------------------------------------- _touch_call_session
\* A query that forgets the filter on active.
Existing_withEnded(tbl, room_id) ==
    {i \in 1..Len(tbl) : tbl[i].room_id = room_id}

\* A query that forgets the room filter.
Existing_anyRoom(tbl, room_id) ==
    {i \in 1..Len(tbl) : tbl[i].active}

Existing(tbl, room_id) ==
    {i \in 1..Len(tbl) : tbl[i].room_id = room_id /\ tbl[i].active}

NewCallSession(room_id, caller_id, callee_id, event_type, t) ==
    [room_id |-> room_id, caller_user_id |-> caller_id,
     callee_user_id |-> callee_id, started_at |-> t, ended_at |-> NoTime,
     active |-> TRUE, last_event_type |-> event_type, last_event_at |-> t]

UpdateCallSession(row, event_type, t) ==
    [row EXCEPT !.last_event_type = event_type,
                !.last_event_at = t,
                !.active = IF event_type = <<"hangup">> THEN FALSE ELSE @,
                !.ended_at = IF event_type = <<"hangup">> THEN t ELSE @]

\* A bookkeeping step that also stamps the row with the sender and the
\* recipient of every later event.
_touch_call_session_reassigns(tbl, room_id, caller_id, callee_id, event_type, t) ==
    IF Existing(tbl, room_id) = {}
    THEN {Append(tbl, NewCallSession(room_id, caller_id, callee_id,
                                     event_type, t))}
    ELSE {[tbl EXCEPT ![i] =
              [UpdateCallSession(tbl[i], event_type, t)
                  EXCEPT !.caller_user_id = caller_id,
                         !.callee_user_id = callee_id]] :
            i \in Existing(tbl, room_id)}

\* A bookkeeping step that inserts a row for every event, without the query.
_touch_call_session_alwaysAdds(tbl, room_id, caller_id, callee_id, event_type, t) ==
    {Append(tbl, NewCallSession(room_id, caller_id, callee_id, event_type, t))}

\* The tables _touch_call_session followed by db.commit() can produce;
\* .first() has no ORDER BY, so any matching row may be the one returned.
_touch_call_session(tbl, room_id, caller_id, callee_id, event_type, t) ==
    IF Existing(tbl, room_id) = {}
    THEN {Append(tbl, NewCallSession(room_id, caller_id, callee_id,
                                     event_type, t))}
    ELSE {[tbl EXCEPT ![i] = UpdateCallSession(tbl[i], event_type, t)] :
            i \in Existing(tbl, room_id)}

\* Rows committed by earlier runs of the server: an ended call in room r1
\* and a call in room "default" that was never hung up.
PriorTime == 1
PriorTable ==
    << [room_id |-> <<"r1">>, caller_user_id |-> "A", callee_user_id |-> "B",
        started_at |-> PriorTime, ended_at |-> PriorTime, active |-> FALSE,
        last_event_type |-> <<"hangup">>, last_event_at |-> PriorTime],
       [room_id |-> <<"default">>, caller_user_id |-> "B",
        callee_user_id |-> "A", started_at |-> PriorTime, ended_at |-> NoTime,
        active |-> TRUE, last_event_type |-> <<"offer">>,
        last_event_at |-> PriorTime] >>

\* ------------------------------------------------------------------- Init
Start(w) ==
    /\ pc = [s \in Sessions |-> "new"]
    /\ user = [s \in Sessions |-> NoUser]
    /\ open = [s \in Sessions |-> TRUE]
    /\ inbox = [s \in Sessions |-> <<>>]
    /\ outbox = [s \in Sessions |-> <<>>]
    /\ connections = [u \in Users |-> NoWs]
    /\ lock = NoWs
    /\ sending = [s \in Sessions |-> Idle]
    /\ call_sessions = IF w = "redial" THEN PriorTable ELSE <<>>
    /\ now = PriorTime + 1
    /\ nframes = 0
    /\ workload = w

Init == \E w \in {"wire", "call", "redial"} : Start(w)

ExitInit == Start("exit")

\* ---------------------------------------------------------------- actions

\* A register that closes the websocket it displaces.
WebsocketSignaling_closesDisplaced(s, token) ==
    /\ pc[s] = "new"
    /\ \A r \in Sessions : r < s => pc[r] # "new"
    /\ IF _token_to_user_id(token) = NoUser
       THEN /\ pc' = [pc EXCEPT ![s] = "rejected"]
            /\ open' = [open EXCEPT ![s] = FALSE]
            /\ UNCHANGED <<user, connections, lock>>
       ELSE /\ pc' = [pc EXCEPT ![s] = "recv"]
            /\ user' = [user EXCEPT ![s] = _token_to_user_id(token)]
            /\ lock = NoWs
            /\ connections' = connect(connections, _token_to_user_id(token), s)
            /\ lock' = NoWs
            /\ open' = [w \in Sessions |->
                          IF w = connections[_token_to_user_id(token)]
                          THEN FALSE ELSE open[w]]
    /\ UNCHANGED <<inbox, outbox, sending, call_sessions, now, nframes, workload>>

\* websocket_signaling: accept, authenticate, then enter signaling_loop,
\* whose first statement registers the websocket (manager.connect: the
\* assignment is the whole body of its async with block).  A missing or
\* unresolved token ends in websocket.close(code=1008) and return: pc
\* "rejected".
WebsocketSignaling(s, token) ==
    /\ pc[s] = "new"
    /\ \A r \in Sessions : r < s => pc[r] # "new"
    /\ IF _token_to_user_id(token) = NoUser
       THEN /\ pc' = [pc EXCEPT ![s] = "rejected"]
            /\ open' = [open EXCEPT ![s] = FALSE]
            /\ UNCHANGED <<user, connections, lock>>
       ELSE /\ pc' = [pc EXCEPT ![s] = "recv"]
            /\ user' = [user EXCEPT ![s] = _token_to_user_id(token)]
            /\ lock = NoWs
            /\ connections' = connect(connections, _token_to_user_id(token), s)
            /\ lock' = NoWs
            /\ UNCHANGED open
    /\ UNCHANGED <<inbox, outbox, sending, call_sessions, now, nframes, workload>>

\* The client writes a frame to its end of the websocket.
ClientSend(s, frame) ==
    /\ pc[s] \in {"recv", "send"}
    /\ open[s]
    /\ Len(inbox[s]) < MaxInbox
    /\ frame \in Alphabet(workload)
    /\ nframes < Budget(workload)
    /\ inbox' = [inbox EXCEPT ![s] = Append(@, frame)]
    /\ nframes' = nframes + 1
    /\ UNCHANGED <<pc, user, open, outbox, connections, lock, sending,
                   call_sessions, now, workload>>

\* The client closes the transport, or the network drops it; frames in
\* flight are lost with it.
ClientClose(s) ==
    /\ pc[s] \in {"recv", "send", "finally"}
    /\ open[s]
    /\ open' = [open EXCEPT ![s] = FALSE]
    /\ inbox' = [inbox EXCEPT ![s] = <<>>]
    /\ UNCHANGED <<pc, user, outbox, connections, lock, sending,
                   call_sessions, now, nframes, workload>>

\* An except clause that goes on to the next frame (continue) once it has
\* rolled back, so that nothing is relayed.
Relay_skippedAfterRollback(s, msg, to_id, room_id) ==
    IF call_sessions' = call_sessions
    THEN UNCHANGED <<pc, sending, outbox, lock>>
    ELSE /\ lock = NoWs
         /\ lock' = NoWs
         /\ IF connections[to_id] = NoWs
            THEN /\ outbox' = [outbox EXCEPT ![s] =
                                  Append(@, PeerOffline(to_id, room_id))]
                 /\ UNCHANGED <<pc, sending>>
            ELSE /\ sending' = [sending EXCEPT ![s] =
                                   [ws |-> connections[to_id],
                                    message |-> Forward(msg, user[s])]]
                 /\ pc' = [pc EXCEPT ![s] = "send"]
                 /\ UNCHANGED outbox

\* A loop that leaves no trace of a message whose recipient is offline.
Relay_offlineUnrecorded(s, msg, to_id, room_id) ==
    /\ lock = NoWs
    /\ IF connections[to_id] = NoWs
       THEN /\ outbox' = [outbox EXCEPT ![s] =
                             Append(@, PeerOffline(to_id, room_id))]
            /\ call_sessions' = call_sessions
            /\ UNCHANGED <<pc, sending>>
       ELSE /\ sending' = [sending EXCEPT ![s] =
                              [ws |-> connections[to_id],
                               message |-> Forward(msg, user[s])]]
            /\ pc' = [pc EXCEPT ![s] = "send"]
            /\ UNCHANGED outbox
    /\ lock' = NoWs

\* A relay that keeps the envelope of an offline recipient for later.
Relay_keepsEnvelope(s, msg, to_id, room_id) ==
    /\ lock = NoWs
    /\ IF connections[to_id] = NoWs
       THEN /\ outbox' = [outbox EXCEPT ![s] =
                             Append(@, PeerOffline(to_id, room_id))]
            /\ sending' = [sending EXCEPT ![s] =
                              [ws |-> NoWs,
                               message |-> Forward(msg, user[s])]]
            /\ UNCHANGED pc
       ELSE /\ sending' = [sending EXCEPT ![s] =
                              [ws |-> connections[to_id],
                               message |-> Forward(msg, user[s])]]
            /\ pc' = [pc EXCEPT ![s] = "send"]
            /\ UNCHANGED outbox
    /\ lock' = NoWs

\* A send_to_user whose ws.send_text sits inside the async with block: the
\* lock stays with the sender while the write is pending.
Relay_writesUnderLock(s, msg, to_id, room_id) ==
    /\ lock = NoWs
    /\ IF connections[to_id] = NoWs
       THEN /\ outbox' = [outbox EXCEPT ![s] =
                             Append(@, PeerOffline(to_id, room_id))]
            /\ lock' = NoWs
            /\ UNCHANGED <<pc, sending>>
       ELSE /\ sending' = [sending EXCEPT ![s] =
                              [ws |-> connections[to_id],
                               message |-> Forward(msg, user[s])]]
            /\ pc' = [pc EXCEPT ![s] = "send"]
            /\ lock' = s
            /\ UNCHANGED outbox

\* Lines 134-140 of signaling_loop: build the envelope and hand it to
\* send_to_user, whose lookup either finds no websocket (return False, and
\* the sender is told peer_offline) or finds one and awaits its send_text.
\* The lookup is the whole body of its async with block: the lock is taken
\* (it is free, or the coroutine waits), the map is read, and the lock is
\* released before send_text is awaited.
Relay(s, msg, to_id, room_id) ==
    /\ lock = NoWs
    /\ IF connections[to_id] = NoWs
       THEN /\ outbox' = [outbox EXCEPT ![s] =
                             Append(@, PeerOffline(to_id, room_id))]
            /\ UNCHANGED <<pc, sending>>
       ELSE /\ sending' = [sending EXCEPT ![s] =
                              [ws |-> connections[to_id],
                               message |-> Forward(msg, user[s])]]
            /\ pc' = [pc EXCEPT ![s] = "send"]
            /\ UNCHANGED outbox
    /\ lock' = NoWs

\* One iteration of the while loop of signaling_loop, from receive_text up
\* to the next await that can suspend: the next receive_text, or the
\* ws.send_text inside send_to_user.  The registry lock is free whenever a
\* coroutine asks for it (no critical section contains an await), and
\* _touch_call_session and db.commit() are synchronous calls, so nothing
\* interleaves before that.  A frame is received only from an open
\* transport, so the replies written to the session's own websocket in the
\* same iteration are taken; the websocket of a peer may be closed by the
\* time it is written to (SendText).
ReceiveFrame(s) ==
    /\ pc[s] = "recv"
    /\ open[s]
    /\ inbox[s] # <<>>
    /\ LET frame == Head(inbox[s])
           msg == frame.obj
           msg_type == MsgType(msg)
           to_id == ToId(msg)
           room_id == RoomId(msg)
       IN
       /\ inbox' = [inbox EXCEPT ![s] = Tail(@)]
       /\ CASE frame.json = "invalid" ->
                 \* json.loads raises: continue
                 UNCHANGED <<pc, outbox, sending, call_sessions, now, lock>>
            [] frame.json = "scalar" ->
                 \* msg.get raises AttributeError, which leaves the loop
                 /\ pc' = [pc EXCEPT ![s] = "finally"]
                 /\ UNCHANGED <<outbox, sending, call_sessions, now, lock>>
            [] frame.json = "object" /\ msg_type \notin RecognizedTypes ->
                 /\ outbox' = [outbox EXCEPT ![s] = Append(@, UnknownTypeError)]
                 /\ UNCHANGED <<pc, sending, call_sessions, now, lock>>
            [] frame.json = "object" /\ msg_type \in RecognizedTypes
                 /\ to_id = NoUser ->
                 /\ outbox' = [outbox EXCEPT ![s] = Append(@, InvalidToError)]
                 /\ UNCHANGED <<pc, sending, call_sessions, now, lock>>
            [] frame.json = "object" /\ msg_type \in RecognizedTypes
                 /\ to_id # NoUser ->
                 /\ \/ /\ call_sessions' \in
                              _touch_call_session(call_sessions, room_id,
                                                  user[s], to_id, msg_type, now)
                       /\ now' = now + 1
                    \/ \* a statement or the commit raises: db.rollback()
                       UNCHANGED <<call_sessions, now>>
                 /\ Relay(s, msg, to_id, room_id)
    /\ UNCHANGED <<user, open, connections, nframes, workload>>

\* A write that puts the message in front of what the websocket already
\* carries.
SendText_atHead(s) ==
    /\ pc[s] = "send"
    /\ IF open[sending[s].ws]
       THEN /\ outbox' = [outbox EXCEPT ![sending[s].ws] =
                             <<sending[s].message>> \o @]
            /\ pc' = [pc EXCEPT ![s] = "recv"]
       ELSE /\ pc' = [pc EXCEPT ![s] = "finally"]
            /\ UNCHANGED outbox
    /\ sending' = [sending EXCEPT ![s] = Idle]
    /\ UNCHANGED <<user, open, inbox, connections, lock, call_sessions,
                   now, nframes, workload>>

\* await ws.send_text(...) of send_to_user returns or raises; on return the
\* loop goes back to receive_text.
SendText(s) ==
    /\ pc[s] = "send"
    /\ IF open[sending[s].ws]
       THEN /\ outbox' = [outbox EXCEPT ![sending[s].ws] =
                             Append(@, sending[s].message)]
            /\ pc' = [pc EXCEPT ![s] = "recv"]
       ELSE /\ pc' = [pc EXCEPT ![s] = "finally"]
            /\ UNCHANGED outbox
    /\ sending' = [sending EXCEPT ![s] = Idle]
    /\ UNCHANGED <<user, open, inbox, connections, lock, call_sessions,
                   now, nframes, workload>>

\* receive_text raises WebSocketDisconnect on a closed transport.
ReceiveDisconnect(s) ==
    /\ pc[s] = "recv"
    /\ ~open[s]
    /\ pc' = [pc EXCEPT ![s] = "finally"]
    /\ UNCHANGED <<user, open, inbox, outbox, connections, lock, sending,
                   call_sessions, now, nframes, workload>>

\* An exit that unregisters and then goes back into the loop.
Finally_backToLoop(s) ==
    /\ pc[s] = "finally"
    /\ lock = NoWs
    /\ connections' = disconnect(connections, user[s])
    /\ lock' = NoWs
    /\ pc' = [pc EXCEPT ![s] = "recv"]
    /\ UNCHANGED <<user, open, inbox, outbox, sending, call_sessions,
                   now, nframes, workload>>

\* finally: await manager.disconnect(current_user_id); the pop is the whole
\* body of its async with block.
Finally(s) ==
    /\ pc[s] = "finally"
    /\ lock = NoWs
    /\ connections' = disconnect(connections, user[s])
    /\ lock' = NoWs
    /\ pc' = [pc EXCEPT ![s] = "done"]
    /\ UNCHANGED <<user, open, inbox, outbox, sending, call_sessions,
                   now, nframes, workload>>

\* The endpoint has returned: the server closes the websocket if the client
\* has not.
ServerClose(s) ==
    /\ pc[s] = "done"
    /\ open[s]
    /\ open' = [open EXCEPT ![s] = FALSE]
    /\ inbox' = [inbox EXCEPT ![s] = <<>>]
    /\ UNCHANGED <<pc, user, outbox, connections, lock, sending,
                   call_sessions, now, nframes, workload>>

Next ==
    \/ \E s \in Sessions, token \in Tokens : WebsocketSignaling(s, token)
    \/ \E s \in Sessions, frame \in Frames : ClientSend(s, frame)
    \/ \E s \in Sessions : ClientClose(s)
    \/ \E s \in Sessions : ReceiveFrame(s)
    \/ \E s \in Sessions : SendText(s)
    \/ \E s \in Sessions : ReceiveDisconnect(s)
    \/ \E s \in Sessions : Finally(s)
    \/ \E s \in Sessions : ServerClose(s)

Spec == Init /\ [][Next]_vars

\* The event loop runs every coroutine that can run: the finally block of
\* a session that has left its loop is eventually executed.
ExitSpec ==
    ExitInit /\ [][Next]_vars /\ \A s \in Sessions : WF_vars(Finally(s))

\* ================================================================ claims

\* Step recognisers: which action a step <<state, next state>> is.
Received(s) ==
    /\ pc[s] = "recv" /\ open[s] /\ open'[s]
    /\ inbox[s] # <<>> /\ inbox'[s] = Tail(inbox[s])
Registered(s) == pc[s] = "new" /\ pc'[s] = "recv"
Unregistered(s) == pc[s] = "finally" /\ pc'[s] = "done"
Wrote(s) == pc[s] = "send" /\ pc'[s] # "send"

\* The frame a Received(s) step reads, and what the loop extracts from it.
InMsg(s) == Head(inbox[s]).obj
IsObject(s) == Head(inbox[s]).json = "object"
FourTypes == {<<"offer">>, <<"answer">>, <<"candidate">>, <<"hangup">>}
WellFormedTo(s) ==
    "to" \in DOMAIN InMsg(s) /\ InMsg(s)["to"].form \in {"canon", "braced"}
Validated(s) ==
    IsObject(s) /\ MsgType(InMsg(s)) \in FourTypes /\ WellFormedTo(s)
Target(s) == InMsg(s)["to"].id

\* env is the relayed form of msg: every field but "to", with "from" the
\* sender's id and "roomId" the normalized room id.
IsEnvelopeOf(env, msg, sender) ==
    /\ DOMAIN env = (DOMAIN msg \ {"to"}) \cup {"from", "roomId"}
    /\ env["from"] = [form |-> "canon", id |-> sender]
    /\ env["roomId"] = RoomId(msg)
    /\ \A k \in DOMAIN msg \ {"to", "from", "roomId"} : env[k] = msg[k]

\* The active rows of a room in the current table.
ActiveRows(room) ==
    {i \in 1..Len(call_sessions) :
        call_sessions[i].room_id = room /\ call_sessions[i].active}

\* Session s takes a frame off its websocket, wherever its coroutine is.
ReadStep(s) ==
    open[s] /\ open'[s] /\ inbox[s] # <<>> /\ inbox'[s] = Tail(inbox[s])

IsPrefix(a, b) == Len(a) <= Len(b) /\ SubSeq(b, 1, Len(a)) = a

\* The inbound roomId of the frame a Received(s) step reads: whether it is
\* present and has a character that is not whitespace, and its text without
\* the whitespace around it.
HasRoom(s) ==
    /\ "roomId" \in DOMAIN InMsg(s)
    /\ \E i \in 1..Len(InMsg(s)["roomId"]) : InMsg(s)["roomId"][i] # " "
IsTrimOf(t, raw) ==
    /\ t # <<>> /\ t[1] # " " /\ t[Len(t)] # " "
    /\ \E i \in 1..Len(raw) :
          /\ i + Len(t) - 1 <= Len(raw)
          /\ SubSeq(raw, i, i + Len(t) - 1) = t
          /\ \A j \in 1..Len(raw) :
                (j < i \/ j > i + Len(t) - 1) => raw[j] = " "

\* The room ids a Received(s) step of a validated message uses: in the
\* envelope handed to the recipient's websocket, in the peer_offline notice
\* and in the rows its bookkeeping adds or changes.
RoomsUsed(s) ==
    (IF pc'[s] = "send" THEN {sending'[s].message["roomId"]} ELSE {})
    \cup (IF Len(outbox'[s]) > Len(outbox[s])
          THEN {outbox'[s][Len(outbox'[s])]["roomId"]} ELSE {})
    \cup {call_sessions'[i].room_id : i \in
             {j \in 1..Len(call_sessions') :
                 j > Len(call_sessions)
                   \/ call_sessions'[j] # call_sessions[j]}}

\* Two inbound messages that differ at most in a client-supplied "from".
SameButFrom(m1, m2) ==
    /\ DOMAIN m1 \ {"from"} = DOMAIN m2 \ {"from"}
    /\ \A k \in DOMAIN m1 \ {"from"} : m1[k] = m2[k]

\* A credential that is missing, fails validation, or names no row of the
\* users table.
Unresolved(token) == token.kind # "valid" \/ token.sub \notin UsersTable

\* ---------------------------------------------------------------------
\* C1: unregistering on behalf of a stale connection never evicts a newer
\* one: when a session unregisters its user while the registry maps that
\* user to another session's websocket, the entry is left as it is.
C1_StaleUnregisterKeepsNewer ==
    [][\A s \in Sessions :
         (Unregistered(s) /\ connections[user[s]] # s)
            => connections'[user[s]] = connections[user[s]]]_vars

\* ---------------------------------------------------------------------
\* C2: the registry holds at most one websocket per user, the one of the
\* latest register or unregister of that user: a register of u installs the
\* registering websocket, an unregister of u leaves no entry, no other step
\* changes the entry of u; a send to u looks up exactly that entry, is
\* written to it and to no other websocket, and finds nothing (returns
\* false, so the sender is told peer_offline) when u has no entry.
C2_RegistryHoldsLatest ==
    [][/\ \A s \in Sessions :
            /\ Registered(s) =>
                 /\ connections'[user'[s]] = s
                 /\ \A u \in Users \ {user'[s]} :
                        connections'[u] = connections[u]
            /\ Unregistered(s) => connections'[user[s]] = NoWs
            /\ (Received(s) /\ Validated(s)) =>
                 IF connections[Target(s)] = NoWs
                 THEN pc'[s] = "recv" /\ sending'[s] = sending[s]
                 ELSE pc'[s] = "send"
                      /\ sending'[s].ws = connections[Target(s)]
            /\ Wrote(s) =>
                 \A w \in Sessions \ {sending[s].ws} : outbox'[w] = outbox[w]
       /\ \A u \in Users :
            \/ connections'[u] = connections[u]
            \/ \E s \in Sessions : Registered(s) /\ user'[s] = u
            \/ \E s \in Sessions : Unregistered(s) /\ user[s] = u]_vars

\* A user registered twice; a message for it was written to the second
\* websocket and nothing to the first.
C2_Witness ==
    \E u \in Users :
        /\ user[1] = u /\ user[2] = u /\ connections[u] = 2
        /\ pc[1] = "recv" /\ pc[2] = "recv"
        /\ outbox[1] = <<>>
        /\ Len(outbox[2]) = 1 /\ outbox[2][1]["type"] = <<"offer">>

\* ---------------------------------------------------------------------
\* C3: a message of a recognized type from sender A whose "to" is a
\* well-formed id of a registered user B is relayed as one envelope: all
\* inbound fields except "to", "from" set to A, "roomId" set to the
\* normalized room id; it is handed to B's registered websocket and, that
\* websocket taking the write, appended to it once, while the sender's and
\* every other websocket receive nothing.
C3_RelayedEnvelope ==
    [][\A s \in Sessions :
         /\ (Received(s) /\ Validated(s) /\ connections[Target(s)] # NoWs) =>
              /\ pc'[s] = "send"
              /\ sending'[s].ws = connections[Target(s)]
              /\ IsEnvelopeOf(sending'[s].message, InMsg(s), user[s])
              /\ outbox' = outbox
         /\ (Wrote(s) /\ open[sending[s].ws]) =>
              /\ outbox' = [outbox EXCEPT ![sending[s].ws] =
                               Append(@, sending[s].message)]
              /\ pc'[s] = "recv"]_vars

\* A's offer for room r1 with sdp X has reached B, and only B.
C3_Witness ==
    \E s, b \in Sessions :
        /\ s # b /\ user[s] = "A" /\ user[b] = "B"
        /\ pc[s] = "recv" /\ outbox[s] = <<>>
        /\ outbox[b] = << [type |-> <<"offer">>,
                           from |-> [form |-> "canon", id |-> "A"],
                           roomId |-> <<"r1">>, sdp |-> <<"X">>] >>

\* ---------------------------------------------------------------------
\* C4: a valid message addressed to a user with no registry entry at lookup
\* time puts exactly one {type: peer_offline, to, roomId} notice on the
\* sender's own websocket and nothing on any other; the sender stays in its
\* loop.
C4_PeerOffline ==
    [][\A s \in Sessions :
         (Received(s) /\ Validated(s) /\ connections[Target(s)] = NoWs) =>
            /\ outbox' = [outbox EXCEPT ![s] =
                  Append(@, [type |-> <<"peer_offline">>,
                             to |-> [form |-> "canon", id |-> Target(s)],
                             roomId |-> RoomId(InMsg(s))])]
            /\ pc'[s] = "recv"
            /\ sending' = sending
            /\ connections' = connections]_vars

\* A has been told that B is offline for room r1; nobody else got anything.
C4_Witness ==
    \E s \in Sessions :
        /\ user[s] = "A" /\ pc[s] = "recv" /\ connections["B"] = NoWs
        /\ outbox[s] = << [type |-> <<"peer_offline">>,
                           to |-> [form |-> "canon", id |-> "B"],
                           roomId |-> <<"r1">>] >>
        /\ \A t \in Sessions \ {s} : outbox[t] = <<>>

C6_InvalidTo ==
    [][\A s \in Sessions :
         (Received(s) /\ IsObject(s) /\ MsgType(InMsg(s)) \in FourTypes
            /\ ~WellFormedTo(s)) =>
            /\ outbox' = [outbox EXCEPT ![s] =
                  Append(@, [type |-> <<"error">>,
                             detail |-> <<"Missing/invalid 'to' user id.">>])]
            /\ pc'[s] = "recv"
            /\ sending' = sending
            /\ call_sessions' = call_sessions
            /\ connections' = connections]_vars

C6_Witness ==
    \E s, t \in Sessions :
        /\ s # t /\ pc[s] = "recv" /\ connections[user[s]] = s
        /\ pc[t] = "recv" /\ connections[user[t]] = t /\ outbox[t] = <<>>
        /\ outbox[s] = << [type |-> <<"error">>,
                           detail |-> <<"Missing/invalid 'to' user id.">>] >>
        /\ call_sessions = <<>>

\* ---------------------------------------------------------------------
\* C7: a frame that is not a JSON object, whether it is not JSON at all or
\* JSON that is an array, number, string or null, is skipped silently:
\* nothing is sent to anyone, and the session stays in its loop, registered.
C7_UnparseableSkipped ==
    [][\A s \in Sessions :
         (Received(s) /\ ~IsObject(s)) =>
            /\ pc'[s] = "recv"
            /\ outbox' = outbox
            /\ sending' = sending
            /\ connections' = connections
            /\ call_sessions' = call_sessions]_vars

\* ---------------------------------------------------------------------
\* C8: whenever a session has left its loop, for whatever reason (its
\* transport disconnected, a frame made the loop raise, a write to a peer
\* raised), it eventually runs its unregister step, and from then on the
\* registry does not map its user to its websocket.
C8_ExitUnregisters ==
    \A s \in Sessions :
        /\ (pc[s] = "finally") ~>
               (pc[s] = "done" /\ connections[user[s]] # s)
        /\ [](pc[s] = "done" => connections[user[s]] # s)

\* A session that left its loop on an exception (its transport is still
\* open) has unregistered.
C8_Witness ==
    \E s \in Sessions :
        pc[s] = "done" /\ open[s] /\ connections[user[s]] = NoWs

\* ---------------------------------------------------------------------
\* C9: when the call-session step of a validated message fails (nothing is
\* committed), what is relayed is what is relayed when it succeeds: the
\* envelope is handed to the recipient's websocket or, the recipient being
\* offline, the sender gets the peer_offline notice; no error is sent to
\* anyone and the session keeps running.
C9_PersistenceFailureSilent ==
    [][\A s \in Sessions :
         (Received(s) /\ Validated(s) /\ call_sessions' = call_sessions) =>
            IF connections[Target(s)] = NoWs
            THEN /\ outbox' = [outbox EXCEPT ![s] =
                       Append(@, [type |-> <<"peer_offline">>,
                                  to |-> [form |-> "canon", id |-> Target(s)],
                                  roomId |-> RoomId(InMsg(s))])]
                 /\ pc'[s] = "recv"
                 /\ sending' = sending
            ELSE /\ outbox' = outbox
                 /\ pc'[s] = "send"
                 /\ sending'[s].ws = connections[Target(s)]
                 /\ IsEnvelopeOf(sending'[s].message, InMsg(s), user[s])]_vars

\* A's offer has reached B although no row could be committed for it.
C9_Witness ==
    /\ call_sessions = <<>>
    /\ \E s, b \in Sessions :
          /\ s # b /\ user[s] = "A" /\ user[b] = "B" /\ pc[s] = "recv"
          /\ Len(outbox[b]) = 1
          /\ outbox[b][1]["type"] = <<"offer">>
          /\ outbox[b][1]["from"] = [form |-> "canon", id |-> "A"]
          /\ outbox[s] = <<>>

\* ---------------------------------------------------------------------
\* C10: when the call-session step succeeds, a non-hangup event from A to B
\* for a room that has no active row creates an active row (caller A,
\* callee B); a hangup for a room that has an active row makes that row
\* inactive with its end timestamp set; and no row is ever changed by an
\* event for another room.
C10_CallSessionLifecycle ==
    [][/\ \A s \in Sessions :
            (Received(s) /\ Validated(s) /\ call_sessions' # call_sessions) =>
               /\ (ActiveRows(RoomId(InMsg(s))) = {}
                     /\ MsgType(InMsg(s)) # <<"hangup">>) =>
                    /\ Len(call_sessions') = Len(call_sessions) + 1
                    /\ LET row == call_sessions'[Len(call_sessions')] IN
                         /\ row.room_id = RoomId(InMsg(s))
                         /\ row.caller_user_id = user[s]
                         /\ row.callee_user_id = Target(s)
                         /\ row.active
                         /\ row.ended_at = NoTime
               /\ (ActiveRows(RoomId(InMsg(s))) # {}
                     /\ MsgType(InMsg(s)) = <<"hangup">>) =>
                    /\ Len(call_sessions') = Len(call_sessions)
                    /\ \E i \in ActiveRows(RoomId(InMsg(s))) :
                         /\ ~call_sessions'[i].active
                         /\ call_sessions'[i].ended_at # NoTime
                         /\ call_sessions'[i].ended_at
                              >= call_sessions'[i].started_at
       /\ Len(call_sessions') >= Len(call_sessions)
       /\ \A i \in 1..Len(call_sessions) :
            call_sessions'[i] # call_sessions[i] =>
               \E s \in Sessions :
                  /\ Received(s) /\ Validated(s)
                  /\ RoomId(InMsg(s)) = call_sessions[i].room_id]_vars

\* A's offer and then A's hangup for room r1 have reached B; the row of the
\* call is inactive and has its end timestamp.
C10_Witness ==
    /\ Len(call_sessions) = 1
    /\ call_sessions[1].room_id = <<"r1">>
    /\ call_sessions[1].caller_user_id = "A"
    /\ call_sessions[1].callee_user_id = "B"
    /\ ~call_sessions[1].active
    /\ call_sessions[1].ended_at > call_sessions[1].started_at
    /\ \E b \in Sessions :
          /\ user[b] = "B" /\ Len(outbox[b]) = 2
          /\ outbox[b][1]["type"] = <<"offer">>
          /\ outbox[b][2]["type"] = <<"hangup">>

\* ---------------------------------------------------------------------
\* C11: in every reachable state, whatever the interleaving of the
\* validated messages of the sessions, no room has two call-session rows
\* with active = true.
C11_OneActivePerRoom ==
    \A i, j \in 1..Len(call_sessions) :
        (/\ call_sessions[i].active /\ call_sessions[j].active
         /\ call_sessions[i].room_id = call_sessions[j].room_id) => i = j

\* Two sessions, A's and B's, have each had an event for room "default"
\* committed and relayed; the room has one row, the one the first event
\* created and the second updated.
C11_Witness ==
    /\ Len(call_sessions) = 1
    /\ call_sessions[1].room_id = <<"default">>
    /\ call_sessions[1].active
    /\ call_sessions[1].last_event_at > call_sessions[1].started_at
    /\ \E b \in Sessions :
          /\ user[b] = "B" /\ Len(outbox[b]) = 2
          /\ outbox[b][1]["from"] # outbox[b][2]["from"]

\* ---------------------------------------------------------------------
\* C12: a connection attempt whose credential is missing, invalid or names
\* no existing user is closed (close code 1008, pc "rejected") and its
\* session never starts: the attempt changes neither the registry nor any
\* websocket's traffic, the connection stays rejected, and no frame of it
\* is ever read, nothing is ever written or relayed to it, and the registry
\* never holds it.
C12_RejectedNeverStarts ==
    /\ [][\A s \in Sessions :
            /\ \A token \in Tokens :
                 (WebsocketSignaling(s, token) /\ Unresolved(token)) =>
                    /\ pc'[s] = "rejected" /\ ~open'[s]
                    /\ connections' = connections /\ user' = user
                    /\ inbox' = inbox /\ outbox' = outbox
                    /\ sending' = sending /\ call_sessions' = call_sessions
            /\ pc[s] = "rejected" =>
                    /\ pc'[s] = "rejected"
                    /\ inbox'[s] = inbox[s] /\ outbox'[s] = outbox[s]
                    /\ \A t \in Sessions : sending'[t].ws # s]_vars
    /\ [](\A s \in Sessions : pc[s] = "rejected" =>
            /\ ~open[s] /\ user[s] = NoUser
            /\ inbox[s] = <<>> /\ outbox[s] = <<>>
            /\ \A u \in Users : connections[u] # s)

\* The first attempt was rejected; the second user is registered and has
\* since had a message answered.
C12_Witness ==
    /\ pc[1] = "rejected" /\ ~open[1]
    /\ pc[2] = "recv" /\ connections[user[2]] = 2 /\ outbox[2] # <<>>

\* ---------------------------------------------------------------------
\* C13: envelopes from one sender to one recipient websocket are written in
\* the order the sender's session read the messages: a session has at most
\* one envelope in flight, the one of the message it read last; it reads no
\* further frame and does not replace that envelope until the write is
\* over; the write appends the envelope at the end of what the recipient's
\* websocket carries; and no step of any session reorders or removes what a
\* websocket carries.
C13_RelayKeepsOrder ==
    [][\A s \in Sessions :
         /\ IsPrefix(outbox[s], outbox'[s])
         /\ (pc[s] # "send") => sending[s] = Idle
         /\ (Received(s) /\ Validated(s) /\ connections[Target(s)] # NoWs) =>
              /\ sending'[s].ws = connections[Target(s)]
              /\ IsEnvelopeOf(sending'[s].message, InMsg(s), user[s])
         /\ (pc[s] = "send") =>
              /\ ~ReadStep(s)
              /\ sending'[s] = sending[s] \/ Wrote(s)
              /\ (Wrote(s) /\ open[sending[s].ws]) =>
                   outbox'[sending[s].ws] =
                       Append(outbox[sending[s].ws], sending[s].message)]_vars

\* A sent B an offer for room r1 and then one without a room; B's websocket
\* carries the two envelopes in that order.
C13_Witness ==
    \E a, b \in Sessions :
        /\ user[a] = "A" /\ user[b] = "B" /\ connections["B"] = b
        /\ pc[a] = "recv"
        /\ Len(outbox[b]) = 2
        /\ outbox[b][1]["from"] = UuidStr("A")
        /\ outbox[b][2]["from"] = UuidStr("A")
        /\ outbox[b][1]["roomId"] = <<"r1">>
        /\ outbox[b][2]["roomId"] = <<"default">>

\* ---------------------------------------------------------------------
\* C14: the registry lock is never held across a websocket write or a
\* frame read: in every reachable state where a session is waiting for a
\* write to a peer's websocket (or for its next frame), the lock is free,
\* so that the register, the unregister and the lookup of any other
\* session can run.
C14_LockFreeDuringIO ==
    \A s \in Sessions : pc[s] \in {"send", "recv"} =>
        /\ lock = NoWs
        /\ \A t \in Sessions \ {s} :
             /\ (pc[t] = "new" /\ \A r \in Sessions : r < t => pc[r] # "new") =>
                   \A token \in Tokens : ENABLED WebsocketSignaling(t, token)
             /\ pc[t] = "finally" => ENABLED Finally(t)
             /\ (pc[t] = "recv" /\ open[t] /\ inbox[t] # <<>>) =>
                   ENABLED ReceiveFrame(t)

\* Session 1 is still waiting for its write to the websocket of session 2
\* to finish; session 2 has meanwhile left its loop and has unregistered.
C14_Witness ==
    /\ pc[1] = "send" /\ sending[1].ws = 2
    /\ pc[2] = "done" /\ connections[user[2]] = NoWs
    /\ lock = NoWs

\* ---------------------------------------------------------------------
\* C15: unregistering a user that has no entry, because it never had one
\* or because it was unregistered before, raises nothing and leaves the
\* registry as it is, the entries of the other users included; and
\* unregistering twice gives the registry that unregistering once gives.
C15_UnregisterIdempotent ==
    /\ [](\A u \in Users :
            /\ connections[u] = NoWs => disconnect(connections, u) = connections
            /\ disconnect(disconnect(connections, u), u)
                  = disconnect(connections, u))
    /\ [][\A s \in Sessions :
            (pc[s] = "finally" /\ pc'[s] # "finally"
               /\ connections[user[s]] = NoWs) =>
                  /\ pc'[s] = "done"
                  /\ connections' = connections]_vars

\* Both sessions of one user have run their unregister step, the second of
\* them on a registry that had no entry for the user any more.
C15_Witness ==
    /\ user[1] = user[2] /\ user[1] # NoUser
    /\ pc[1] = "done" /\ pc[2] = "done"
    /\ connections[user[1]] = NoWs

\* ---------------------------------------------------------------------
\* C16: send_to_user tells whether the user had an entry when it looked:
\* with no entry it returns false (the loop then writes peer_offline to the
\* sender) having written to no websocket; with an entry it writes the
\* message once to the websocket of that entry and returns true (the loop
\* goes on to its next frame); either way the registry is left as it was.
C16_SendReturnsPresence ==
    [][\A s \in Sessions :
         /\ (Received(s) /\ Validated(s) /\ connections[Target(s)] = NoWs) =>
              /\ pc'[s] = "recv"
              /\ sending' = sending
              /\ \A w \in Sessions \ {s} : outbox'[w] = outbox[w]
              /\ Len(outbox'[s]) = Len(outbox[s]) + 1
              /\ outbox'[s][Len(outbox'[s])]["type"] = <<"peer_offline">>
              /\ connections' = connections
         /\ (Received(s) /\ Validated(s) /\ connections[Target(s)] # NoWs) =>
              /\ pc'[s] = "send"
              /\ sending'[s].ws = connections[Target(s)]
              /\ outbox' = outbox
              /\ connections' = connections
         /\ Wrote(s) =>
              /\ outbox' = [outbox EXCEPT ![sending[s].ws] =
                               Append(@, sending[s].message)]
              /\ pc'[s] = "recv"
              /\ connections' = connections]_vars

\* ---------------------------------------------------------------------
\* C17: a routing or delivery problem of one message never ends the
\* session of its sender: after a message with an unknown type, a bad "to"
\* or an offline recipient, and after a write to the recipient's registered
\* websocket whether it succeeds or fails (the recipient's transport being
\* closed already), the sender is still in its loop and its registry entry
\* is what it was.
C17_DeliveryProblemsNotFatal ==
    [][\A s \in Sessions :
         /\ (Received(s) /\ IsObject(s)) =>
              /\ pc'[s] \in {"recv", "send"}
              /\ connections'[user[s]] = connections[user[s]]
         /\ Wrote(s) =>
              /\ pc'[s] = "recv"
              /\ connections'[user[s]] = connections[user[s]]]_vars

\* ---------------------------------------------------------------------
\* C18: no registry operation closes a websocket: a register, also one
\* that replaces an entry, an unregister, a lookup and a write of send leave
\* the open/closed status of every websocket as it is; a websocket is
\* closed only on its owner's side (its client or network drops it, or its
\* own endpoint rejects it or returns), in a step that is no registry
\* operation.
C18_RegistryNeverCloses ==
    [][/\ \A s \in Sessions :
            (\/ Registered(s) \/ Unregistered(s) \/ Wrote(s)
             \/ (Received(s) /\ Validated(s))) => open' = open
       /\ connections' # connections => open' = open
       /\ \A w \in Sessions :
            open'[w] # open[w] =>
               /\ ~open'[w]
               /\ connections' = connections /\ sending' = sending
               /\ \A t \in Sessions \ {w} : pc'[t] = pc[t]
               /\ \/ pc[w] = "new" /\ pc'[w] = "rejected"
                  \/ pc[w] \in {"recv", "send", "finally", "done"}
                       /\ pc'[w] = pc[w]]_vars

\* A user has registered a second websocket; the displaced first one is
\* still open, its session is in its loop and has since answered a frame on
\* it.
C18_Witness ==
    /\ user[1] = user[2] /\ user[1] # NoUser /\ connections[user[1]] = 2
    /\ open[1] /\ pc[1] = "recv" /\ outbox[1] # <<>>
    /\ open[2] /\ pc[2] = "recv"

\* ---------------------------------------------------------------------
\* C19: caller_user_id and callee_user_id of a call-session row are the
\* sender and the recipient of the message that created the row, and no
\* later event changes them, whoever sends it and whomever it addresses.
C19_CallerCalleeFixed ==
    [][/\ Len(call_sessions') >= Len(call_sessions)
       /\ \A i \in 1..Len(call_sessions) :
            /\ call_sessions'[i].caller_user_id
                  = call_sessions[i].caller_user_id
            /\ call_sessions'[i].callee_user_id
                  = call_sessions[i].callee_user_id
       /\ \A i \in (Len(call_sessions) + 1)..Len(call_sessions') :
            \E s \in Sessions :
               /\ Received(s) /\ Validated(s)
               /\ call_sessions'[i].caller_user_id = user[s]
               /\ call_sessions'[i].callee_user_id = Target(s)]_vars

\* A's message to B created the row of room r1; then B's own message for
\* that room (addressed to B) was committed and relayed: the row still has
\* caller A and callee B.
C19_Witness ==
    /\ Len(call_sessions) = 1
    /\ call_sessions[1].room_id = <<"r1">>
    /\ call_sessions[1].caller_user_id = "A"
    /\ call_sessions[1].callee_user_id = "B"
    /\ call_sessions[1].last_event_at > call_sessions[1].started_at
    /\ \E b \in Sessions :
          /\ user[b] = "B" /\ Len(outbox[b]) = 2
          /\ outbox[b][1]["from"] = UuidStr("A")
          /\ outbox[b][2]["from"] = UuidStr("B")

\* ---------------------------------------------------------------------
\* C20: a call-session row goes from absent to active to inactive and no
\* further: rows are created active and never deleted, an inactive row is
\* never changed again in any field, and a committed non-hangup event for a
\* room whose rows are all inactive adds a new active row for the room and
\* leaves the old rows as they are.
C20_EndedRowsFrozen ==
    [][/\ Len(call_sessions') >= Len(call_sessions)
       /\ \A i \in 1..Len(call_sessions) :
            ~call_sessions[i].active => call_sessions'[i] = call_sessions[i]
       /\ \A i \in (Len(call_sessions) + 1)..Len(call_sessions') :
            call_sessions'[i].active
       /\ \A s \in Sessions :
            (/\ Received(s) /\ Validated(s)
             /\ call_sessions' # call_sessions
             /\ MsgType(InMsg(s)) # <<"hangup">>
             /\ ActiveRows(RoomId(InMsg(s))) = {}) =>
                /\ Len(call_sessions') = Len(call_sessions) + 1
                /\ SubSeq(call_sessions', 1, Len(call_sessions))
                      = call_sessions
                /\ call_sessions'[Len(call_sessions')].room_id
                      = RoomId(InMsg(s))
                /\ call_sessions'[Len(call_sessions')].active]_vars

\* Room r1 had an ended call; an offer for r1 has been committed: the ended
\* row is as it was and the room has a new active row.
C20_Witness ==
    /\ Len(call_sessions) = 3
    /\ call_sessions[1] = PriorTable[1]
    /\ ~call_sessions[1].active /\ call_sessions[1].room_id = <<"r1">>
    /\ call_sessions[3].room_id = <<"r1">> /\ call_sessions[3].active
    /\ call_sessions[3].last_event_type = <<"offer">>

\* ---------------------------------------------------------------------
\* C21: only a non-hangup event creates an active call-session row: no
\* active row has "hangup" as its last event, and a hangup for a room that
\* has no active row leaves the room without an active row.
C21_HangupCreatesNoActiveRow ==
    /\ [](\A i \in 1..Len(call_sessions) :
            call_sessions[i].active =>
               call_sessions[i].last_event_type # <<"hangup">>)
    /\ [][\A s \in Sessions :
            (/\ Received(s) /\ Validated(s)
             /\ MsgType(InMsg(s)) = <<"hangup">>
             /\ ActiveRows(RoomId(InMsg(s))) = {}) =>
                \A i \in 1..Len(call_sessions') :
                   call_sessions'[i].room_id = RoomId(InMsg(s)) =>
                      ~call_sessions'[i].active]_vars

\* ---------------------------------------------------------------------
\* C22 (as stated): the room id of the relayed envelope, of the
\* peer_offline notice and of the call-session lookup of one message is the
\* inbound roomId itself when that is present and not blank, and "default"
\* when it is absent, empty or only whitespace.
C22_RoomIdVerbatim ==
    [][\A s \in Sessions :
         (Received(s) /\ Validated(s)) =>
            /\ RoomsUsed(s) # {}
            /\ \A r \in RoomsUsed(s) :
                 r = IF HasRoom(s) THEN InMsg(s)["roomId"]
                     ELSE <<"default">>]_vars

\* C22 (amended): the room id of the relayed envelope, of the peer_offline
\* notice and of the call-session lookup of one message is the inbound
\* roomId without its leading and trailing whitespace when it is present
\* and not blank, and "default" when it is absent, empty or only
\* whitespace; one message uses one value in all three places.
C22_RoomIdNormalized ==
    [][\A s \in Sessions :
         (Received(s) /\ Validated(s)) =>
            /\ RoomsUsed(s) # {}
            /\ \A r, q \in RoomsUsed(s) : r = q
            /\ \A r \in RoomsUsed(s) :
                 IF HasRoom(s) THEN IsTrimOf(r, InMsg(s)["roomId"])
                 ELSE r = <<"default">>]_vars

\* A message whose roomId was "r1 " has been committed and relayed: the
\* row and the envelope both carry r1.
C22_Witness ==
    /\ workload = "wire"
    /\ Len(call_sessions) = 1 /\ call_sessions[1].room_id = <<"r1">>
    /\ \E b \in Sessions :
          /\ Len(outbox[b]) = 1
          /\ outbox[b][1]["type"] \in FourTypes
          /\ outbox[b][1]["roomId"] = <<"r1">>

\* ---------------------------------------------------------------------
\* C23: the "from" of a relayed envelope is the authenticated user of the
\* session that read the message, whatever "from" the client put in it:
\* the envelope built for a message is the one built for any message that
\* differs from it only in a client-supplied "from"; and no relayed
\* envelope, in flight or written, has a "to".
C23_FromIsServerStamped ==
    /\ [][\A s \in Sessions :
            (Received(s) /\ Validated(s) /\ pc'[s] = "send") =>
               /\ sending'[s].message["from"] = UuidStr(user[s])
               /\ "to" \notin DOMAIN sending'[s].message
               /\ \A m \in Objects :
                    SameButFrom(m, InMsg(s)) =>
                       Forward(m, user[s]) = sending'[s].message]_vars
    /\ [](\A w \in Sessions : \A i \in 1..Len(outbox[w]) :
            outbox[w][i]["type"] \in FourTypes =>
               /\ "to" \notin DOMAIN outbox[w][i]
               /\ \E s \in Sessions :
                     outbox[w][i]["from"] = UuidStr(user[s]))

\* A's message with a payload has been written to B's websocket: the
\* envelope names A as its sender and has no "to".
C23_Witness ==
    \E a, b \in Sessions :
        /\ a # b /\ user[a] = "A" /\ user[b] = "B" /\ workload = "wire"
        /\ Len(outbox[b]) = 1
        /\ DOMAIN outbox[b][1] = {"type", "from", "roomId", "sdp"}
        /\ outbox[b][1]["from"] = UuidStr("A")

\* ---------------------------------------------------------------------
\* C24: nothing is kept for an offline recipient.  A validated message
\* whose target has no registry entry at lookup time puts one peer_offline
\* notice on the sender's websocket, writes to no other websocket and
\* leaves no envelope in flight; an envelope is in flight only from a
\* lookup that found its websocket registered, an envelope reaches a
\* websocket only as the write of such an in-flight envelope, and a
\* register step delivers nothing.
C24_NoBufferingForOffline ==
    [][/\ \A s \in Sessions :
            /\ (Received(s) /\ Validated(s)
                  /\ connections[Target(s)] = NoWs) =>
                 /\ outbox' = [outbox EXCEPT ![s] =
                       Append(@, [type |-> <<"peer_offline">>,
                                  to |-> UuidStr(Target(s)),
                                  roomId |-> RoomId(InMsg(s))])]
                 /\ sending' = sending
                 /\ pc'[s] = "recv"
            /\ (sending'[s] # sending[s] /\ sending'[s] # Idle) =>
                 /\ Received(s) /\ Validated(s)
                 /\ sending[s] = Idle
                 /\ connections[Target(s)] # NoWs
                 /\ sending'[s].ws = connections[Target(s)]
            /\ Registered(s) => (outbox' = outbox /\ sending' = sending)
       /\ \A w \in Sessions :
            (/\ Len(outbox'[w]) > Len(outbox[w])
             /\ outbox'[w][Len(outbox'[w])]["type"] \in FourTypes) =>
                \E s \in Sessions :
                   /\ Wrote(s) /\ sending[s].ws = w
                   /\ outbox'[w] = Append(outbox[w], sending[s].message)]_vars

\* A was told that B is offline; B has registered since and is in its
\* loop: B's websocket has received nothing and no envelope is in flight.
C24_Witness ==
    \E a, b \in Sessions :
        /\ user[a] = "A" /\ user[b] = "B"
        /\ pc[a] = "recv" /\ pc[b] = "recv" /\ connections["B"] = b
        /\ Len(outbox[a]) = 1
        /\ outbox[a][1]["type"] = <<"peer_offline">>
        /\ outbox[a][1]["to"] = UuidStr("B")
        /\ outbox[b] = <<>>
        /\ \A s \in Sessions : sending[s] = Idle

\* ---------------------------------------------------------------------
\* C25: a session follows one path, connecting (new), registered and
\* relaying (recv, send), unregistering (finally), closed (done), or is
\* rejected: it registers in the one step that takes it into the loop and
\* in no other, reads frames and hands envelopes to send only inside the
\* loop, unregisters in the one step that takes it from the exit to the
\* end, and once it has unregistered it stays there, reads no frame, relays
\* nothing and is never registered again.
C25_LinearSession ==
    [][\A s \in Sessions :
         /\ pc'[s] # pc[s] =>
              <<pc[s], pc'[s]>> \in
                 {<<"new", "recv">>, <<"new", "rejected">>,
                  <<"recv", "send">>, <<"send", "recv">>,
                  <<"recv", "finally">>, <<"send", "finally">>,
                  <<"finally", "done">>}
         /\ (\E u \in Users : connections'[u] = s /\ connections[u] # s) =>
              Registered(s)
         /\ Registered(s) => connections'[user'[s]] = s
         /\ user'[s] # user[s] => Registered(s)
         /\ ReadStep(s) => (pc[s] = "recv" /\ pc'[s] # "done")
         /\ (sending'[s] # sending[s]) => pc[s] \in {"recv", "send"}
         /\ Unregistered(s) => connections'[user[s]] = NoWs
         /\ pc[s] = "done" =>
              /\ pc'[s] = "done"
              /\ ~ReadStep(s)
              /\ sending'[s] = sending[s] /\ sending[s] = Idle
              /\ \A u \in Users : connections'[u] = s => connections[u] = s]_vars

\* A's session has been through the whole path: it registered, relayed an
\* offer to B, left its loop when its transport closed, and unregistered.
C25_Witness ==
    \E a, b \in Sessions :
        /\ user[a] = "A" /\ user[b] = "B"
        /\ pc[a] = "done" /\ ~open[a] /\ connections["A"] = NoWs
        /\ pc[b] = "recv"
        /\ Len(outbox[b]) = 1
        /\ outbox[b][1]["type"] = <<"offer">>
        /\ outbox[b][1]["from"] = UuidStr("A")

\* ---------------------------------------------------------------------
\* C26: the call-session step of a validated message comes before its
\* delivery and does not depend on it.  Whether or not the recipient is
\* registered, the step that reads the message can commit its row; when it
\* commits, the table has a row of the message's room stamped with its type
\* and time, also when the sender only gets peer_offline, and nothing has
\* been written to another websocket yet; the write of the envelope to the
\* recipient is a later step that does not touch the table, and the table
\* changes in no other step than the reading of a validated message.
C26_BookkeepingBeforeDelivery ==
    /\ [](\A s \in Sessions :
            (pc[s] = "recv" /\ open[s] /\ inbox[s] # <<>> /\ Validated(s)) =>
               ENABLED (ReceiveFrame(s) /\ call_sessions' # call_sessions))
    /\ [][/\ \A s \in Sessions :
               /\ (Received(s) /\ Validated(s)
                     /\ call_sessions' # call_sessions) =>
                    /\ \E i \in 1..Len(call_sessions') :
                          /\ call_sessions'[i].room_id = RoomId(InMsg(s))
                          /\ call_sessions'[i].last_event_type
                                = MsgType(InMsg(s))
                          /\ call_sessions'[i].last_event_at = now
                    /\ \A w \in Sessions \ {s} : outbox'[w] = outbox[w]
                    /\ connections[Target(s)] = NoWs =>
                          outbox'[s] = Append(outbox[s],
                              [type |-> <<"peer_offline">>,
                               to |-> UuidStr(Target(s)),
                               roomId |-> RoomId(InMsg(s))])
               /\ Wrote(s) => (call_sessions' = call_sessions /\ now' = now)
          /\ call_sessions' # call_sessions =>
               \E s \in Sessions : Received(s) /\ Validated(s)]_vars

\* A's offer to B, who is not registered, has been recorded: the table has
\* the row of the call, A has the peer_offline notice, and nothing was
\* relayed.
C26_Witness ==
    \E a \in Sessions :
        /\ user[a] = "A" /\ connections["B"] = NoWs
        /\ \A s \in Sessions : user[s] # "B"
        /\ Len(call_sessions) = 1
        /\ call_sessions[1].caller_user_id = "A"
        /\ call_sessions[1].callee_user_id = "B"
        /\ call_sessions[1].active
        /\ call_sessions[1].last_event_type = <<"offer">>
        /\ Len(outbox[a]) = 1
        /\ outbox[a][1]["type"] = <<"peer_offline">>
        /\ \A w \in Sessions \ {a} : outbox[w] = <<>>

====
